---- MODULE Spec2Model ----
(***************************************************************************)
(* ohsumbot: the command queue of openai::processor::Processor::run (the   *)
(* ingestion task and the drain loop sharing a Vec<Command> under an       *)
(* RwLock, fed by a bounded mpsc channel), the command processor           *)
(* process_command, the per-chat message-id ledger of db::Db behind its    *)
(* Mutex, the loading of a chat's messages, the prompt chunker of          *)
(* openai::api::OpenAIClient and the update handlers of                    *)
(* telegram::Processor.                                                    *)
(***************************************************************************)
EXTENDS Integers, Sequences, FiniteSets, TLC

\* ------------------------------------------------------------------ bounds

\* Commands the update loop submits in one run of the model.
MaxSubmit == 3
\* Most prompts (SendPrompt follow-ups) one command's chunking yields.
MaxPrompts == 2
\* tokio::sync::mpsc::channel(1000) in Processor::run, scaled down so that the
\* full channel is reached.
ChannelCapacity == 1

\* consts::MESSAGE_TO_STORE, the ledger's capacity N, scaled down so that the
\* trim is reached.
MESSAGE_TO_STORE == 2
\* add_message_id calls in one run of the model, over all chats.
MaxAdds == 4

\* consts::TELEGRAM_MAX_MESSAGE_FETCH, the most ids one get_messages_by_id call
\* takes, scaled down so that a full ledger needs more than one call.
TELEGRAM_MAX_MESSAGE_FETCH == 1
\* consts::SYMBOL_PER_OPENAI_MESSAGE, the chunker's budget B, scaled down so
\* that a batch of three messages is split.
SYMBOL_PER_OPENAI_MESSAGE == 40
\* system_message.len(): the instruction template, the length text and the
\* final header, scaled down with the budget.
SystemMessageLen == 10
\* The bytes the question adds to the template of an Ask.
QuestionLen == 4
\* Most messages in a batch handed to the chunker.
MaxBatch == 3
\* Errors of the update loop in one run of the model.
MaxLogged == 2
\* Messages process_updates records in one run of the update-path model.
MaxRecorded == 1

\* --------------------------------------------------------------- variables

VARIABLES
    queue,       \* Vec<Command> behind the RwLock, head first
    chan,        \* commands accepted by the mpsc channel and not yet received
    pending,     \* the command the producer is sending (send().await), or NoCommand
    offered,     \* number of commands the producer has built so far
    drainPc,     \* position of the drain loop: "peek", "exec", "ret", "sleep"
    cur,         \* the clone of the head handed to process_command, or NoCommand
    result,      \* what process_command returned, or NoResult
    executing,   \* ids of the process_command calls started and not yet returned
    started,     \* history: ids still queued on which process_command was started
    execTop,     \* history: submitted ids in the order process_command started on them
    removedTop,  \* history: submitted ids in the order queue.remove(0) removed them
    lastRemoved, \* history: the command removed last and its result, until the next returns
    accepted,    \* history: ids in the order the channel accepted them
    ingested,    \* history: ids in the order msg_handler pushed them
    arrival,     \* history: ids pushed during the idle sleep or the running call
    behind,      \* history: for each queued follow-up f, the still queued c that were queued before it
    db,          \* the sqlite database: chat id -> its table g{chat_id}
    inserted,    \* history: chat id -> the message ids add_message_id inserted, in order
    got,         \* the last get_messages_id call and what it returned, or NoGet
    mutex,       \* Arc<Mutex<Db>>: "free", or the task holding the guard
    updPc,       \* position of the update loop: "next_update", or the statement of add_message_id it is at
    updArg,      \* the (chat id, message id) of the add_message_id call in progress
    logged,      \* number of errors process_updates has logged
    reader,      \* the get_messages_id call waiting for the mutex, or NoReader
    upd,         \* the update process_updates handled last and what handling it did, or NoUpdate
    run,         \* the last Summarize or Ask executed against the ledger and its result, or NoRun
    batch,       \* the messages handed to the chunker
    budget,      \* consts::SYMBOL_PER_OPENAI_MESSAGE of the chunker call
    called,      \* the chunker entry point that was called, or "none"
    produced     \* what the chunker returned, or NoPrompts

schedVars == <<queue, chan, pending, offered, drainPc, cur, result, executing,
               started, execTop, removedTop, lastRemoved, accepted, ingested,
               arrival, behind>>

ledgerVars == <<db, inserted, got>>

stepVars == <<mutex, updPc, updArg, logged, reader>>

requestVars == <<run, upd>>

chunkVars == <<batch, budget, called, produced>>

otherVars == <<ledgerVars, stepVars, requestVars, chunkVars>>

vars == <<schedVars, otherVars>>

\* ---------------------------------------------------------------- commands

\* The variants telegram::Processor submits; SendPrompt is only ever a follow-up.
SubmittedKinds == {"Summarize", "SummarizeMessage", "Ask"}

\* A Command value. The id is the model's name for the value: <<n>> for the n-th
\* submitted command, Append(parent, k) for the k-th follow-up of parent.
Command(id, kind) == [id |-> id, kind |-> kind]

NoCommand == [id |-> <<>>, kind |-> "None"]

Ids(s) == [i \in 1..Len(s) |-> s[i].id]

Range(s) == {s[i] : i \in 1..Len(s)}

\* A submitted command's id (a follow-up's id is longer).
IsTop(id) == Len(id) = 1

\* The sequence s without the first occurrence of x.
Remove(s, x) ==
    IF \E i \in 1..Len(s) : s[i] = x
    THEN LET k == CHOOSE i \in 1..Len(s) : s[i] = x /\ \A j \in 1..(i - 1) : s[j] # x
         IN SubSeq(s, 1, k - 1) \o SubSeq(s, k + 1, Len(s))
    ELSE s

\* ------------------------------------------------- process_command results

\* anyhow::Result<CommandResult>: ok with `new` follow-ups, or an error `err`;
\* `sent` are the texts send_message was called with for the recipient, `calls`
\* the completion-provider calls made, both in order.
Ok(n, sent, calls) == [ok |-> TRUE, new |-> n, err |-> "none", sent |-> sent, calls |-> calls]

Err(e, sent, calls) == [ok |-> FALSE, new |-> 0, err |-> e, sent |-> sent, calls |-> calls]

NoResult == [ok |-> FALSE, new |-> 0, err |-> "unset", sent |-> <<>>, calls |-> <<>>]

NoRemoved == [id |-> <<>>, ok |-> FALSE, err |-> "unset"]

\* client.send_message(recipient, text).await? followed by Ok(n follow-ups).
SendThen(text, n, sent, calls) ==
    { Ok(n, Append(sent, text), calls), Err("send", Append(sent, text), calls) }

\* load_messages: the ledger read fails, a gateway page fetch fails, or the
\* (filtered) messages come back, empty or not.
LoadMessagesResults == {"storage", "gateway", "empty", "messages"}

\* prepare_summary_prompt (Summarize).
PrepareSummaryPrompt ==
    UNION { CASE l = "storage" -> {Err("storage", <<>>, <<>>)}
              [] l = "gateway" -> {Err("gateway", <<>>, <<>>)}
              [] l = "empty" -> SendThen("No messages found", 0, <<>>, <<>>)
              [] l = "messages" -> {Ok(n, <<>>, <<>>) : n \in 1..MaxPrompts}
            : l \in LoadMessagesResults }

\* ask_on_summary (Ask): the same loading path, prepare_question_prompt.
AskOnSummary ==
    UNION { CASE l = "storage" -> {Err("storage", <<>>, <<>>)}
              [] l = "gateway" -> {Err("gateway", <<>>, <<>>)}
              [] l = "empty" -> SendThen("No messages found", 0, <<>>, <<>>)
              [] l = "messages" -> {Ok(n, <<>>, <<>>) : n \in 1..MaxPrompts}
            : l \in LoadMessagesResults }

\* process_media: what the attachment and the external steps can turn out as.
MediaCases == {"unsupported", "download_err", "download_false", "ffmpeg_err",
               "ffmpeg_failed", "transcribe_err", "remove_err", "no_text", "text"}

\* process_media: Ok(vec of n SendPrompt) with the notices sent, or Err.
ProcessMedia(m) ==
    CASE m = "unsupported" -> SendThen("Unsupported media type", 0, <<>>, <<>>)
      [] m = "download_err" -> {Err("gateway", <<>>, <<>>)}
      [] m = "download_false" -> SendThen("Failed to download media", 0, <<>>, <<>>)
      [] m = "ffmpeg_err" -> {Err("io", <<>>, <<>>)}
      [] m = "ffmpeg_failed" -> SendThen("Failed to convert video to audio", 0, <<>>, <<>>)
      [] m = "transcribe_err" -> {Err("provider", <<>>, <<"audio">>)}
      [] m = "remove_err" -> {Err("io", <<>>, <<"audio">>)}
      [] m = "no_text" -> SendThen("Failed to transcribe audio", 0, <<>>, <<"audio">>)
      [] m = "text" -> {Ok(n, <<>>, <<"audio">>) : n \in 1..MaxPrompts}

\* summarize_message, after the message was fetched: `media` is the outcome of
\* process_media (Ok(0, <<>>, <<>>) when the message has no media), `t` the
\* number of prompts made of the message text (0 when the text is empty).
SummarizeFetched(media, t) ==
    IF ~media.ok THEN {media}
    ELSE IF media.new + t = 0
         THEN SendThen("No messages found. Please be aware that messages from bots are not available.",
                       0, media.sent, media.calls)
         ELSE {Ok(media.new + t, media.sent, media.calls)}

\* summarize_message (SummarizeMessage).
SummarizeMessage ==
    {Err("gateway", <<>>, <<>>)}
    \cup SummarizeFetched(Ok(0, <<>>, <<>>), 0)
    \cup UNION { SummarizeFetched(Ok(0, <<>>, <<>>), t) : t \in 1..MaxPrompts }
    \cup UNION { UNION { UNION { SummarizeFetched(r, t)
                                 : t \in {u \in 0..MaxPrompts : r.new + u <= MaxPrompts} }
                         : r \in ProcessMedia(m) }
                 : m \in MediaCases }

FailureNotice == "Failed to summarize the chat. Try again later"

\* What chat_completion_create returns: an error, or a Completion with its
\* number of choices and whether choices[0].message is Some.
ChatCompletions ==
    {[request_ok |-> FALSE, choices |-> 0, message |-> FALSE],
     [request_ok |-> TRUE, choices |-> 0, message |-> FALSE],
     [request_ok |-> TRUE, choices |-> 1, message |-> FALSE],
     [request_ok |-> TRUE, choices |-> 1, message |-> TRUE]}

\* Mutant of SendPrompt: every Completion is returned as Ok.
SendPromptUnchecked(completion) == completion.request_ok

\* OpenAIClient::send_prompt: TRUE for Ok(result), FALSE for Err.
SendPrompt(completion) ==
    /\ completion.request_ok
    /\ ~(completion.choices = 0 \/ ~completion.message)

\* A result of the SendPrompt case together with the provider's response.
Responded(r, completion) ==
    [ok |-> r.ok, new |-> r.new, err |-> r.err, sent |-> r.sent, calls |-> r.calls,
     response |-> completion]

\* Mutant of SendPromptCase: a failed provider call is returned as the error
\* of the command, without a notice.
SendPromptCaseSilent ==
    UNION { IF SendPrompt(p)
            THEN {Responded(r, p) : r \in SendThen("answer", 0, <<>>, <<"chat">>)}
            ELSE {Responded(Err("provider", <<>>, <<"chat_err">>), p)}
            : p \in ChatCompletions }

\* Mutant of SendPromptCase: a failed provider call is made a second time.
SendPromptCaseRetrying ==
    UNION { IF SendPrompt(p)
            THEN {Responded(r, p) : r \in SendThen("answer", 0, <<>>, <<"chat">>)}
            ELSE {Responded(r, p) :
                    r \in SendThen(FailureNotice, 0, <<>>, <<"chat_err", "chat_err">>)}
            : p \in ChatCompletions }

\* The SendPrompt case of process_command: one send_prompt call ("chat" when
\* it returned Ok, "chat_err" when it returned Err), then the answer
\* result.choices[0].message.unwrap() or the failure notice is sent and no
\* follow-up is returned. The index or the unwrap panics on a Completion
\* without a first choice or without its message.
SendPromptCase ==
    UNION { IF SendPrompt(p)
            THEN IF p.choices = 0 \/ ~p.message
                 THEN {Responded(Err("panic", <<>>, <<"chat">>), p)}
                 ELSE {Responded(r, p) : r \in SendThen("answer", 0, <<>>, <<"chat">>)}
            ELSE {Responded(r, p) : r \in SendThen(FailureNotice, 0, <<>>, <<"chat_err">>)}
            : p \in ChatCompletions }

\* process_command: every result the call can return for `command`.
ProcessCommandResults(command) ==
    CASE command.kind = "Summarize" -> PrepareSummaryPrompt
      [] command.kind = "SummarizeMessage" -> SummarizeMessage
      [] command.kind = "Ask" -> AskOnSummary
      [] command.kind = "SendPrompt" -> SendPromptCase

\* The follow-up Commands of a result: one SendPrompt per prompt, in order.
NewCommands(command, n) ==
    [k \in 1..n |-> Command(Append(command.id, k), "SendPrompt")]

\* ------------------------------------------------------------------ ledger

\* Chat ids and message ids the update loop records.
Chats == {1, 2}

MsgIds == {10, 11, 12}

\* A table g{chat_id}: absent, or its rows (id INTEGER PRIMARY KEY, message_id;
\* the timestamp column is never read).
NoTable == [exists |-> FALSE, rows |-> {}]

Min(a, b) == IF a <= b THEN a ELSE b

MaxRowId(rows) == CHOOSE i \in {r.id : r \in rows} : \A r \in rows : r.id <= i

\* SELECT ... ORDER BY id DESC: the rows as a sequence, largest id first.
RECURSIVE OrderByIdDesc(_)
OrderByIdDesc(rows) ==
    IF rows = {} THEN <<>>
    ELSE LET top == CHOOSE r \in rows : r.id = MaxRowId(rows)
         IN <<top>> \o OrderByIdDesc(rows \ {top})

\* LIMIT n.
Limit(s, n) == SubSeq(s, 1, Min(n, Len(s)))

Reverse(s) == [i \in 1..Len(s) |-> s[Len(s) + 1 - i]]

\* Mutant of GetMessagesId: ORDER BY id ASC.
GetMessagesIdAsc(d, chat_id, count) ==
    IF ~d[chat_id].exists
    THEN [ok |-> FALSE, ids |-> <<>>]
    ELSE LET sel == Limit(Reverse(OrderByIdDesc(d[chat_id].rows)), count)
         IN [ok |-> TRUE, ids |-> [i \in 1..Len(sel) |-> sel[i].message_id]]

\* Db::get_messages_id: prepare fails when the table does not exist; otherwise
\* SELECT message_id FROM g{chat_id} ORDER BY id DESC LIMIT count.
GetMessagesId(d, chat_id, count) ==
    IF ~d[chat_id].exists
    THEN [ok |-> FALSE, ids |-> <<>>]
    ELSE LET sel == Limit(OrderByIdDesc(d[chat_id].rows), count)
         IN [ok |-> TRUE, ids |-> [i \in 1..Len(sel) |-> sel[i].message_id]]

\* CREATE TABLE IF NOT EXISTS g{chat_id}.
CreateTable(t) == [exists |-> TRUE, rows |-> t.rows]

\* INSERT INTO g{chat_id} (timestamp, message_id): sqlite gives the new row the
\* largest id of the table plus one (1 in an empty table).
InsertRow(t, message_id) ==
    [exists |-> TRUE,
     rows |-> t.rows \cup {[id |-> IF t.rows = {} THEN 1 ELSE MaxRowId(t.rows) + 1,
                            message_id |-> message_id]}]

\* Mutant of DeleteOld: the subquery keeps one row too many.
DeleteOldOffByOne(t, n) ==
    LET keep == Range(Limit(OrderByIdDesc(t.rows), n + 1))
    IN [exists |-> TRUE, rows |-> {r \in t.rows : r.id \in {k.id : k \in keep}}]

\* DELETE FROM g{chat_id} WHERE id NOT IN (SELECT id ... ORDER BY id DESC LIMIT n).
DeleteOld(t, n) ==
    LET keep == Range(Limit(OrderByIdDesc(t.rows), n))
    IN [exists |-> TRUE, rows |-> {r \in t.rows : r.id \in {k.id : k \in keep}}]

\* Db::add_message_id with every statement succeeding.
AddMessageId(d, chat_id, message_id) ==
    [d EXCEPT ![chat_id] =
        DeleteOld(InsertRow(CreateTable(d[chat_id]), message_id), MESSAGE_TO_STORE)]

NoGet == [chat |-> 0, count |-> 0, res |-> [ok |-> FALSE, ids |-> <<>>]]

TotalAdds == Len(inserted[1]) + Len(inserted[2])

\* ------------------------------------------------------------------ chunker

\* A message of the batch handed to the chunker: the ledger id it was loaded
\* under, and the byte lengths of the sender's username ("" when the sender
\* has none) and of the text.
ChunkMessage(id, user, text) == [id |-> id, user |-> user, text |-> text]

\* The number of decimal digits of n, for n < 1000.
Digits(n) == IF n < 10 THEN 1 ELSE IF n < 100 THEN 2 ELSE 3

\* Mutant of NewLine: the line carries the index of enumerate() as it is.
NewLineFromZero(i, m) ==
    [index |-> i, id |-> m.id, len |-> Digits(i) + 4 + m.user + 4 + m.text + 2]

\* format!("{}. [@{}]: \"{}\"\n", i + 1, user, message): the number written,
\* the message it carries and new_line.len().
NewLine(i, m) ==
    [index |-> i + 1, id |-> m.id, len |-> Digits(i + 1) + 4 + m.user + 4 + m.text + 2]

\* msg.len() of the lines pushed into msg so far.
RECURSIVE MsgLen(_)
MsgLen(msg) == IF msg = <<>> THEN 0 ELSE Head(msg).len + MsgLen(Tail(msg))

\* msg.push_str("```"); Prompt { system_message, user_message(msg), .. }: the
\* lines of the user message and the lengths of both messages.
Prompt(msg, system_message_len) ==
    [lines |-> msg, system_len |-> system_message_len, user_len |-> MsgLen(msg) + 3]

\* Mutant of ChunkLoop: the line that does not fit is dropped.
RECURSIVE ChunkLoopDropping(_, _, _, _, _, _)
ChunkLoopDropping(messages, i, msg, prompts, system_message_len, B) ==
    IF i >= Len(messages)
    THEN Append(prompts, Prompt(msg, system_message_len))
    ELSE LET new_line == NewLine(i, messages[i + 1])
         IN IF system_message_len + MsgLen(msg) + new_line.len > B
            THEN ChunkLoopDropping(messages, i + 1, <<>>,
                                   Append(prompts, Prompt(msg, system_message_len)),
                                   system_message_len, B)
            ELSE ChunkLoopDropping(messages, i + 1, Append(msg, new_line), prompts,
                                   system_message_len, B)

\* The loop `for (i, (user, message)) in messages.enumerate()` from iteration
\* i on, and the push after it.
\* Mutant of ChunkLoop: the payload is closed already when the line would
\* fill it up to the budget.
RECURSIVE ChunkLoopClosingAtBudget(_, _, _, _, _, _)
ChunkLoopClosingAtBudget(messages, i, msg, prompts, system_message_len, B) ==
    IF i >= Len(messages)
    THEN Append(prompts, Prompt(msg, system_message_len))
    ELSE LET new_line == NewLine(i, messages[i + 1])
         IN IF system_message_len + MsgLen(msg) + new_line.len >= B
            THEN ChunkLoopClosingAtBudget(messages, i + 1, <<new_line>>,
                                          Append(prompts, Prompt(msg, system_message_len)),
                                          system_message_len, B)
            ELSE ChunkLoopClosingAtBudget(messages, i + 1, Append(msg, new_line), prompts,
                                          system_message_len, B)

RECURSIVE ChunkLoop(_, _, _, _, _, _)
ChunkLoop(messages, i, msg, prompts, system_message_len, B) ==
    IF i >= Len(messages)
    THEN Append(prompts, Prompt(msg, system_message_len))
    ELSE LET new_line == NewLine(i, messages[i + 1])
         IN IF system_message_len + MsgLen(msg) + new_line.len > B
            THEN ChunkLoop(messages, i + 1, <<new_line>>,
                           Append(prompts, Prompt(msg, system_message_len)),
                           system_message_len, B)
            ELSE ChunkLoop(messages, i + 1, Append(msg, new_line), prompts,
                           system_message_len, B)

\* Mutant of PrepareSummarizePrompts: no early return on an empty iterator.
PrepareSummarizePromptsNoPeek(messages, system_message_len, B) ==
    ChunkLoop(messages, 0, <<>>, <<>>, system_message_len, B)

\* OpenAIClient::prepare_summarize_prompts, with the budget
\* consts::SYMBOL_PER_OPENAI_MESSAGE as B.
PrepareSummarizePrompts(messages, system_message_len, B) ==
    IF messages = <<>>
    THEN <<>>
    ELSE ChunkLoop(messages, 0, <<>>, <<>>, system_message_len, B)

\* OpenAIClient::prepare_summarize_prompts_from_messages: (username, text) of
\* every message, .rev(), then the chunker.
PrepareSummarizePromptsFromMessages(messages, system_message_len, B) ==
    PrepareSummarizePrompts(Reverse(messages), system_message_len, B)


\* ------------------------------------------------------------ request path

\* What the gateway does during one load_messages: the messages it no longer
\* has (get_messages_by_id yields None for them), the get_messages_by_id call
\* that fails (0: none), and whether send_message fails.
Gateways == [gone : SUBSET MsgIds, fail : 0..2, send_fails : BOOLEAN]

\* The messages whose sender has the username a Summarize filters by.
SentByMentioned == {10, 12}

\* The messages behind the ids: the byte lengths of username and text.
Messages ==
    [m \in MsgIds |->
        CASE m = 10 -> ChunkMessage(m, 2, 3)
          [] m = 11 -> ChunkMessage(m, 0, 8)
          [] OTHER -> ChunkMessage(m, 2, 20)]

\* Mutant of FetchSlices: the loop without `if minimum == maximum { break; }`.
RECURSIVE FetchSlicesNoBreak(_, _)
FetchSlicesNoBreak(ids, i) ==
    IF i >= Len(ids) \div TELEGRAM_MAX_MESSAGE_FETCH + 1
    THEN <<>>
    ELSE LET minimum == i * TELEGRAM_MAX_MESSAGE_FETCH
             maximum == Min((i + 1) * TELEGRAM_MAX_MESSAGE_FETCH, Len(ids))
         IN <<SubSeq(ids, minimum + 1, maximum)>> \o FetchSlicesNoBreak(ids, i + 1)

\* The slices &messages_id_to_load[minimum..maximum] that the loop of
\* load_messages fetches from iteration i on.
RECURSIVE FetchSlices(_, _)
FetchSlices(ids, i) ==
    IF i >= Len(ids) \div TELEGRAM_MAX_MESSAGE_FETCH + 1
    THEN <<>>
    ELSE LET minimum == i * TELEGRAM_MAX_MESSAGE_FETCH
             maximum == Min((i + 1) * TELEGRAM_MAX_MESSAGE_FETCH, Len(ids))
         IN IF minimum = maximum
            THEN <<>>
            ELSE <<SubSeq(ids, minimum + 1, maximum)>> \o FetchSlices(ids, i + 1)

\* messages.extend(fetched_messages) over all slices.
RECURSIVE Extend(_)
Extend(slices) == IF slices = <<>> THEN <<>> ELSE Head(slices) \o Extend(Tail(slices))

\* A Summarize or Ask as the update loop builds it.
Request(kind, chat, recipient, message_count, mentioned) ==
    [kind |-> kind, chat |-> chat, recipient |-> recipient,
     message_count |-> message_count, mentioned |-> mentioned]

\* Processor::load_messages: the ids of the ledger under the mutex, then one
\* get_messages_by_id per slice, dropping None and, when a username is
\* given, every message of another sender.
LoadMessages(d, request, gw) ==
    LET r == GetMessagesId(d, request.chat, request.message_count)
        slices == FetchSlices(r.ids, 0)
        Kept(id) == id \notin gw.gone /\ (request.mentioned => id \in SentByMentioned)
    IN IF ~r.ok THEN [ok |-> FALSE, err |-> "storage", slices |-> <<>>, messages |-> <<>>]
       ELSE IF gw.fail \in 1..Len(slices)
       THEN [ok |-> FALSE, err |-> "gateway",
             slices |-> SubSeq(slices, 1, gw.fail), messages |-> <<>>]
       ELSE [ok |-> TRUE, err |-> "none", slices |-> slices,
             messages |-> SelectSeq(Extend(slices), Kept)]

\* Command::SendPrompt { recipient: recipient.clone(), prompt } per prompt.
SendPrompts(recipient, ps) ==
    [k \in 1..Len(ps) |-> [kind |-> "SendPrompt", recipient |-> recipient, prompt |-> ps[k]]]

\* The CommandResult or error of one call, the messages it sent and the
\* provider calls it made.
RequestResult(ok, err, sent, calls, new_commands) ==
    [ok |-> ok, err |-> err, sent |-> sent, calls |-> calls, new_commands |-> new_commands]

\* OpenAIClient::prepare_question_prompt: the chunker with a template that
\* embeds the question.
PrepareQuestionPrompt(messages, system_message_len, B) ==
    PrepareSummarizePromptsFromMessages(messages, system_message_len + QuestionLen, B)

\* Mutant of PrepareSummaryPromptOn: a follow-up for the first prompt only.
PrepareSummaryPromptOnFirst(d, request, gw) ==
    LET l == LoadMessages(d, request, gw)
        ps == PrepareSummarizePromptsFromMessages(
                  [i \in 1..Len(l.messages) |-> Messages[l.messages[i]]],
                  SystemMessageLen, SYMBOL_PER_OPENAI_MESSAGE)
    IN IF ~l.ok THEN RequestResult(FALSE, l.err, <<>>, <<>>, <<>>)
       ELSE IF l.messages = <<>>
       THEN IF gw.send_fails
            THEN RequestResult(FALSE, "gateway", <<>>, <<>>, <<>>)
            ELSE RequestResult(TRUE, "none",
                               <<[to |-> request.recipient, text |-> "No messages found"]>>,
                               <<>>, <<>>)
       ELSE RequestResult(TRUE, "none", <<>>, <<>>,
                          SendPrompts(request.recipient, SubSeq(ps, 1, 1)))

\* Processor::prepare_summary_prompt (Summarize) and Processor::ask_on_summary
\* (Ask, which never filters by sender) on the database d.
PrepareSummaryPromptOn(d, request, gw) ==
    LET l == LoadMessages(d, request, gw)
        ms == [i \in 1..Len(l.messages) |-> Messages[l.messages[i]]]
        ps == IF request.kind = "Ask"
              THEN PrepareQuestionPrompt(ms, SystemMessageLen, SYMBOL_PER_OPENAI_MESSAGE)
              ELSE PrepareSummarizePromptsFromMessages(ms, SystemMessageLen,
                                                       SYMBOL_PER_OPENAI_MESSAGE)
    IN IF ~l.ok THEN RequestResult(FALSE, l.err, <<>>, <<>>, <<>>)
       ELSE IF l.messages = <<>>
       THEN IF gw.send_fails
            THEN RequestResult(FALSE, "gateway", <<>>, <<>>, <<>>)
            ELSE RequestResult(TRUE, "none",
                               <<[to |-> request.recipient, text |-> "No messages found"]>>,
                               <<>>, <<>>)
       ELSE RequestResult(TRUE, "none", <<>>, <<>>, SendPrompts(request.recipient, ps))

NoRun ==
    [request |-> Request("None", 0, 0, 0, FALSE),
     delivering |-> FALSE,
     entries |-> 0,
     load |-> [ok |-> FALSE, err |-> "unset", slices |-> <<>>, messages |-> <<>>],
     res |-> RequestResult(FALSE, "unset", <<>>, <<>>, <<>>)]

NoPrompts == <<[lines |-> <<>>, system_len |-> 0, user_len |-> 0]>>

NoArg == [chat |-> 0, message_id |-> 0]

NoReader == [chat |-> 0, count |-> 0]

NoUpdate == [update |-> "none"]


\* ------------------------------------------------------------- update path

\* self.me.username(): Some("me"), an Option written as a sequence.
Me == <<"me">>

\* The first whitespace-separated token of a text, written as the pieces
\* between its '@' characters and the '@' themselves; <<>> is a text without
\* any token.
FirstTokens ==
    {<<>>, <<"hi">>, <<"hi", "@", "other">>, <<"@", "other">>, <<"/help">>,
     <<"/summarize">>, <<"/summarize", "@", "me">>, <<"/summarize", "@", "other">>,
     <<"/summarize", "@">>, <<"/ask">>, <<"/start">>}

\* text.split('@'): the parts of the token, `part` being the one read so far.
RECURSIVE SplitAt(_, _)
SplitAt(token, part) ==
    IF token = <<>> THEN <<part>>
    ELSE IF Head(token) = "@" THEN <<part>> \o SplitAt(Tail(token), "")
    ELSE SplitAt(Tail(token), Head(token))

\* cmd.starts_with('/').
StartsWithSlash(cmd) ==
    cmd \in {"/help", "/summarize", "/small", "/medium", "/large", "/ask", "/start"}

\* An update of next_update(): a new message of a group or of a user chat,
\* or anything else; who sent it, and whether it replies to a message.
Updates ==
    [kind : {"group", "user", "other"}, outgoing : BOOLEAN, chat : Chats, id : MsgIds,
     token : FirstTokens, sender : {"none", "user", "bot"}, reply : BOOLEAN]

\* Whether send_message to the sender, and to the chat, fails.
Deliveries == [dm_fails : BOOLEAN, chat_fails : BOOLEAN]

\* What handling one update did: the Result of the handler, the messages
\* handed to send_message, the add_message_id calls, the commands sent into
\* the channel, and whether delete_messages was called on the message.
Handled(ok, sent, added, submitted, deleted) ==
    [ok |-> ok, sent |-> sent, added |-> added, submitted |-> submitted,
     deleted |-> deleted]

Nothing == Handled(TRUE, <<>>, <<>>, <<>>, FALSE)

WorkingNotice == "Working on your request... Please, wait."

CannotMessageNotice ==
    "Couldn't send you a message. Please, start a conversation with me first."

UnknownSenderNotice == "Sender is unknown. Check your privacy settings."

\* Mutant of Sender: a failed direct message is ignored.
SenderIgnoringFailure(u, dv) ==
    IF u.sender = "none"
    THEN [res |-> IF dv.chat_fails THEN "err" ELSE "none",
          sent |-> <<[to |-> "chat", text |-> UnknownSenderNotice]>>]
    ELSE [res |-> "some", sent |-> <<[to |-> "sender", text |-> WorkingNotice]>>]

\* Processor::sender: Ok(Some(sender)) after the direct message went out,
\* Ok(None) after a fallback notice to the chat, Err when that notice fails.
Sender(u, dv) ==
    IF u.sender = "none"
    THEN [res |-> IF dv.chat_fails THEN "err" ELSE "none",
          sent |-> <<[to |-> "chat", text |-> UnknownSenderNotice]>>]
    ELSE IF dv.dm_fails
    THEN [res |-> IF dv.chat_fails THEN "err" ELSE "none",
          sent |-> <<[to |-> "sender", text |-> WorkingNotice],
                     [to |-> "chat", text |-> CannotMessageNotice]>>]
    ELSE [res |-> "some", sent |-> <<[to |-> "sender", text |-> WorkingNotice]>>]

\* Processor::summarize and Processor::ask: the command goes into the channel
\* only when sender() gave a recipient.
Trigger(u, dv, kind) ==
    LET s == Sender(u, dv)
    IN CASE s.res = "err" -> Handled(FALSE, s.sent, <<>>, <<>>, FALSE)
         [] s.res = "none" -> Handled(TRUE, s.sent, <<>>, <<>>, TRUE)
         [] OTHER -> Handled(TRUE, s.sent, <<>>,
                             <<[kind |-> kind, chat |-> u.chat, recipient |-> "sender"]>>,
                             TRUE)

\* Mutant of ProcessGroupMessage: no test of the name after '@'.
ProcessGroupMessageAnyName(u, dv) ==
    LET parts == SplitAt(u.token, "")
        cmd == parts[1]
    IN IF u.token = <<>> THEN Nothing
       ELSE IF cmd = "/help"
       THEN Handled(~dv.chat_fails, <<[to |-> "chat", text |-> "usage"]>>, <<>>, <<>>,
                    ~dv.chat_fails)
       ELSE IF cmd \in {"/summarize", "/small", "/medium", "/large"}
       THEN Trigger(u, dv, IF u.reply THEN "SummarizeMessage" ELSE "Summarize")
       ELSE IF cmd = "/ask" THEN Trigger(u, dv, "Ask")
       ELSE IF StartsWithSlash(cmd) \/ u.sender = "bot" THEN Nothing
       ELSE Handled(TRUE, <<>>, <<[chat |-> u.chat, message_id |-> u.id]>>, <<>>, FALSE)

\* Processor::process_group_message.
ProcessGroupMessage(u, dv) ==
    LET parts == SplitAt(u.token, "")
        cmd == parts[1]
        bot_name == IF Len(parts) >= 2 THEN <<parts[2]>> ELSE <<>>
    IN IF u.token = <<>> THEN Nothing
       ELSE IF bot_name # <<>> /\ bot_name # <<"">> /\ bot_name # Me THEN Nothing
       ELSE IF cmd = "/help"
       THEN Handled(~dv.chat_fails, <<[to |-> "chat", text |-> "usage"]>>, <<>>, <<>>,
                    ~dv.chat_fails)
       ELSE IF cmd \in {"/summarize", "/small", "/medium", "/large"}
       THEN Trigger(u, dv, IF u.reply THEN "SummarizeMessage" ELSE "Summarize")
       ELSE IF cmd = "/ask" THEN Trigger(u, dv, "Ask")
       ELSE IF StartsWithSlash(cmd) \/ u.sender = "bot" THEN Nothing
       ELSE Handled(TRUE, <<>>, <<[chat |-> u.chat, message_id |-> u.id]>>, <<>>, FALSE)

\* Processor::process_user_message.
ProcessUserMessage(u, dv) ==
    IF u.token # <<>> /\ StartsWithSlash(SplitAt(u.token, "")[1])
    THEN Handled(~dv.chat_fails,
                 <<[to |-> "chat",
                    text |-> "Write/Forward text or audio you want to get summary on"]>>,
                 <<>>, <<>>, FALSE)
    ELSE IF u.sender # "none"
    THEN Handled(TRUE, <<>>, <<>>,
                 <<[kind |-> "SummarizeMessage", chat |-> u.chat, recipient |-> "sender"]>>,
                 FALSE)
    ELSE Nothing

\* The match of process_updates on one update.
HandleUpdate(u, dv) ==
    CASE u.kind = "group" /\ ~u.outgoing -> ProcessGroupMessage(u, dv)
      [] u.kind = "user" /\ ~u.outgoing -> ProcessUserMessage(u, dv)
      [] OTHER -> Nothing


\* -------------------------------------------------------------------- Init

\* What the drain loop is in: the id of the command in process_command, <<0>>
\* in the idle sleep, <<>> at the top of the loop.
Running ==
    CASE drainPc \in {"exec", "ret"} -> cur.id
      [] drainPc = "sleep" -> <<0>>
      [] OTHER -> <<>>


InitBase ==
    /\ queue = <<>>
    /\ chan = <<>>
    /\ pending = NoCommand
    /\ offered = 0
    /\ drainPc = "peek"
    /\ cur = NoCommand
    /\ result = NoResult
    /\ executing = <<>>
    /\ started = <<>>
    /\ execTop = <<>>
    /\ removedTop = <<>>
    /\ lastRemoved = NoRemoved
    /\ accepted = <<>>
    /\ ingested = <<>>
    /\ arrival = {}
    /\ behind = {}
    /\ db = [c \in Chats |-> NoTable]
    /\ inserted = [c \in Chats |-> <<>>]
    /\ got = NoGet
    /\ mutex = "free"
    /\ updPc = "next_update"
    /\ updArg = NoArg
    /\ logged = 0
    /\ reader = NoReader
    /\ run = NoRun
    /\ upd = NoUpdate

Init ==
    /\ InitBase
    /\ batch = <<>>
    /\ budget = SYMBOL_PER_OPENAI_MESSAGE
    /\ called = "none"
    /\ produced = NoPrompts

\* ----------------------------------------------------------- update loop

\* telegram::Processor builds a Command and reaches sender_channel.send(..).
Submit ==
    /\ pending = NoCommand
    /\ offered < MaxSubmit
    /\ \E k \in SubmittedKinds : pending' = Command(<<offered + 1>>, k)
    /\ offered' = offered + 1
    /\ UNCHANGED <<queue, chan, drainPc, cur, result, executing, started, execTop,
                   removedTop, lastRemoved, accepted, ingested, arrival, behind,
                   otherVars>>

\* Mutant of ChannelSend: try_send, which gives up on a full channel.
ChannelSendDropping ==
    /\ pending # NoCommand
    /\ chan' = IF Len(chan) < ChannelCapacity THEN Append(chan, pending) ELSE chan
    /\ accepted' = IF Len(chan) < ChannelCapacity THEN Append(accepted, pending.id) ELSE accepted
    /\ pending' = NoCommand
    /\ UNCHANGED <<queue, offered, drainPc, cur, result, executing, started,
                   execTop, removedTop, lastRemoved, ingested, arrival, behind,
                   otherVars>>

\* sender_channel.send(command).await completes: the channel has room.
ChannelSend ==
    /\ pending # NoCommand
    /\ Len(chan) < ChannelCapacity
    /\ chan' = Append(chan, pending)
    /\ accepted' = Append(accepted, pending.id)
    /\ pending' = NoCommand
    /\ UNCHANGED <<queue, offered, drainPc, cur, result, executing, started,
                   execTop, removedTop, lastRemoved, ingested, arrival, behind,
                   otherVars>>

\* ------------------------------------------------------------- ingestion

\* Mutant of MsgHandler: the command is inserted at the front of the queue.
MsgHandlerPushFront ==
    /\ chan # <<>>
    /\ queue' = <<Head(chan)>> \o queue
    /\ chan' = Tail(chan)
    /\ ingested' = Append(ingested, Head(chan).id)
    /\ arrival' = IF Running = <<>> THEN arrival
                  ELSE arrival \cup {[id |-> Head(chan).id, during |-> Running]}
    /\ UNCHANGED <<pending, offered, drainPc, cur, result, executing, started,
                   execTop, removedTop, lastRemoved, accepted, behind, otherVars>>

\* msg_handler: rx.recv() yields a command; push it under the write lock.
MsgHandler ==
    /\ chan # <<>>
    /\ queue' = Append(queue, Head(chan))
    /\ chan' = Tail(chan)
    /\ ingested' = Append(ingested, Head(chan).id)
    /\ arrival' = IF Running = <<>> THEN arrival
                  ELSE arrival \cup {[id |-> Head(chan).id, during |-> Running]}
    /\ UNCHANGED <<pending, offered, drainPc, cur, result, executing, started,
                   execTop, removedTop, lastRemoved, accepted, behind, otherVars>>

\* ------------------------------------------------------------ drain loop

\* Mutant of DrainPeek: the call is spawned, not awaited, so the loop peeks
\* again while process_command still runs.
DrainPeekSpawned ==
    /\ drainPc \in {"peek", "exec"}
    /\ queue # <<>>
    /\ cur' = Head(queue)
    /\ executing' = Append(executing, Head(queue).id)
    /\ started' = Append(started, Head(queue).id)
    /\ execTop' = IF IsTop(Head(queue).id) THEN Append(execTop, Head(queue).id) ELSE execTop
    /\ drainPc' = "exec"
    /\ UNCHANGED <<queue, chan, pending, offered, result, removedTop, lastRemoved,
                   accepted, ingested, arrival, behind, otherVars>>

\* Mutant of DrainPeek: the head is popped before it is processed.
DrainPeekPop ==
    /\ drainPc = "peek"
    /\ queue # <<>>
    /\ cur' = Head(queue)
    /\ queue' = Tail(queue)
    /\ executing' = Append(executing, Head(queue).id)
    /\ started' = Append(started, Head(queue).id)
    /\ execTop' = IF IsTop(Head(queue).id) THEN Append(execTop, Head(queue).id) ELSE execTop
    /\ drainPc' = "exec"
    /\ UNCHANGED <<chan, pending, offered, result, removedTop, lastRemoved,
                   accepted, ingested, arrival, behind, otherVars>>

\* queue.first().cloned() is Some: process_command is called on the clone.
DrainPeek ==
    /\ drainPc = "peek"
    /\ queue # <<>>
    /\ cur' = Head(queue)
    /\ executing' = Append(executing, Head(queue).id)
    /\ started' = Append(started, Head(queue).id)
    /\ execTop' = IF IsTop(Head(queue).id) THEN Append(execTop, Head(queue).id) ELSE execTop
    /\ drainPc' = "exec"
    /\ UNCHANGED <<queue, chan, pending, offered, result, removedTop, lastRemoved,
                   accepted, ingested, arrival, behind, otherVars>>

\* queue.first() is None: sleep for a second.
DrainIdle ==
    /\ drainPc = "peek"
    /\ queue = <<>>
    /\ drainPc' = "sleep"
    /\ UNCHANGED <<queue, chan, pending, offered, cur, result, executing, started,
                   execTop, removedTop, lastRemoved, accepted, ingested, arrival,
                   behind, otherVars>>

\* Mutant of DrainWake: the loop ends the first time it finds the queue empty.
DrainWakeNever ==
    /\ drainPc = "sleep"
    /\ UNCHANGED vars

\* The sleep is over: back to the top of the loop.
DrainWake ==
    /\ drainPc = "sleep"
    /\ drainPc' = "peek"
    /\ UNCHANGED <<queue, chan, pending, offered, cur, result, executing, started,
                   execTop, removedTop, lastRemoved, accepted, ingested, arrival,
                   behind, otherVars>>

\* process_command(command).await returns.
ProcessCommand ==
    /\ drainPc = "exec"
    /\ \E r \in ProcessCommandResults(cur) : result' = r
    /\ executing' = Remove(executing, cur.id)
    /\ lastRemoved' = NoRemoved
    /\ arrival' = {a \in arrival : a.during # <<0>>}
    /\ drainPc' = "ret"
    /\ UNCHANGED <<queue, chan, pending, offered, cur, started, execTop,
                   removedTop, accepted, ingested, behind, otherVars>>

\* The histories after queue.remove(0) removed the command `gone`.
Forget(gone, bs) ==
    /\ started' = Remove(started, gone.id)
    /\ removedTop' = IF IsTop(gone.id) THEN Append(removedTop, gone.id) ELSE removedTop
    /\ lastRemoved' = [id |-> gone.id, ok |-> result.ok, err |-> result.err]
    /\ arrival' = {}
    /\ behind' = {b \in bs : b.f # gone.id /\ b.c # gone.id}

\* Mutant of DrainOk: the write lock is released between extend and remove(0).
DrainOkTorn ==
    /\ drainPc = "ret"
    /\ result.ok
    /\ IF result.new > 0
       THEN /\ queue' = queue \o NewCommands(cur, result.new)
            /\ result' = [result EXCEPT !.new = 0]
            /\ UNCHANGED <<cur, drainPc, started, removedTop, lastRemoved, arrival,
                           behind>>
       ELSE /\ queue' = Tail(queue)
            /\ Forget(Head(queue), behind)
            /\ cur' = NoCommand
            /\ result' = NoResult
            /\ drainPc' = "peek"
    /\ UNCHANGED <<chan, pending, offered, executing, execTop, accepted, ingested,
                   otherVars>>

\* Mutant of DrainOk: the follow-ups are inserted right behind the head.
DrainOkPrepend ==
    /\ drainPc = "ret"
    /\ result.ok
    /\ LET new == NewCommands(cur, result.new)
       IN /\ queue' = new \o Tail(queue)
          /\ Forget(Head(queue),
                    behind \cup {[c |-> c, f |-> f,
                                  late |-> [id |-> c, during |-> cur.id] \in arrival]
                                 : c \in Range(Ids(Tail(queue))), f \in Range(Ids(new))})
    /\ cur' = NoCommand
    /\ result' = NoResult
    /\ drainPc' = "peek"
    /\ UNCHANGED <<chan, pending, offered, executing, execTop, accepted, ingested,
                   otherVars>>

\* Ok(result): under the write lock, extend with the follow-ups, remove(0).
DrainOk ==
    /\ drainPc = "ret"
    /\ result.ok
    /\ LET new == NewCommands(cur, result.new)
           all == queue \o new
       IN /\ queue' = Tail(all)
          /\ Forget(Head(all),
                    behind \cup {[c |-> c, f |-> f,
                                  late |-> [id |-> c, during |-> cur.id] \in arrival]
                                 : c \in Range(Ids(Tail(queue))), f \in Range(Ids(new))})
    /\ cur' = NoCommand
    /\ result' = NoResult
    /\ drainPc' = "peek"
    /\ UNCHANGED <<chan, pending, offered, executing, execTop, accepted, ingested,
                   otherVars>>

\* Mutant of DrainErr: a provider error keeps the head for another attempt.
DrainErrRetry ==
    /\ drainPc = "ret"
    /\ ~result.ok
    /\ IF result.err = "provider"
       THEN UNCHANGED <<queue, started, removedTop, lastRemoved, arrival, behind>>
       ELSE queue' = Tail(queue) /\ Forget(Head(queue), behind)
    /\ cur' = NoCommand
    /\ result' = NoResult
    /\ drainPc' = "peek"
    /\ UNCHANGED <<chan, pending, offered, executing, execTop, accepted, ingested,
                   otherVars>>

\* Mutant of DrainErr: the error ends the drain loop.
DrainErrStop ==
    /\ drainPc = "ret"
    /\ ~result.ok
    /\ queue' = Tail(queue)
    /\ Forget(Head(queue), behind)
    /\ cur' = NoCommand
    /\ result' = NoResult
    /\ drainPc' = "stopped"
    /\ UNCHANGED <<chan, pending, offered, executing, execTop, accepted, ingested,
                   otherVars>>

\* Err(e): log, and under the write lock remove(0).
DrainErr ==
    /\ drainPc = "ret"
    /\ ~result.ok
    /\ queue' = Tail(queue)
    /\ Forget(Head(queue), behind)
    /\ cur' = NoCommand
    /\ result' = NoResult
    /\ drainPc' = "peek"
    /\ UNCHANGED <<chan, pending, offered, executing, execTop, accepted, ingested,
                   otherVars>>

Next ==
    \/ Submit
    \/ ChannelSend
    \/ MsgHandler
    \/ DrainPeek
    \/ DrainIdle
    \/ DrainWake
    \/ ProcessCommand
    \/ DrainOk
    \/ DrainErr

Spec == Init /\ [][Next]_vars

\* The scheduling the runtime gives: both tasks of join(msg_handler, processor)
\* are polled whenever they can proceed, the RwLock hands out the lock in
\* arrival order, and every call of process_command returns. The update loop
\* may stop submitting at any point.
FairSpec ==
    /\ Spec
    /\ WF_vars(MsgHandler)
    /\ WF_vars(DrainPeek)
    /\ WF_vars(DrainIdle)
    /\ WF_vars(DrainWake)
    /\ WF_vars(ProcessCommand)
    /\ WF_vars(DrainOk)
    /\ WF_vars(DrainErr)

\* ------------------------------------------------------- ledger operations

\* The update path records a group message: db.lock().await.add_message_id(..).
Add ==
    /\ TotalAdds < MaxAdds
    /\ \E c \in Chats, m \in MsgIds :
          /\ db' = AddMessageId(db, c, m)
          /\ inserted' = [inserted EXCEPT ![c] = Append(@, m)]
    /\ got' = NoGet
    /\ UNCHANGED <<schedVars, stepVars, requestVars, chunkVars>>

\* load_messages reads the ledger: db.lock().await.get_messages_id(chat, count).
Get ==
    /\ \E c \in Chats, n \in 0..(MESSAGE_TO_STORE + 1) :
          got' = [chat |-> c, count |-> n, res |-> GetMessagesId(db, c, n)]
    /\ UNCHANGED <<db, inserted>>
    /\ UNCHANGED <<schedVars, stepVars, requestVars, chunkVars>>

NextLedger ==
    \/ Add
    \/ Get

SpecLedger == Init /\ [][NextLedger]_vars

\* ------------------------------------------------- ledger, statement by statement

\* process_group_message reaches self.db.lock().await and gets the guard; the
\* guard lives until the statement `...add_message_id(..)?;` ends.
UpdLock ==
    /\ updPc = "next_update"
    /\ mutex = "free"
    /\ TotalAdds < MaxAdds
    /\ \E c \in Chats, m \in MsgIds : updArg' = [chat |-> c, message_id |-> m]
    /\ mutex' = "update"
    /\ updPc' = "create"
    /\ got' = NoGet
    /\ UNCHANGED <<schedVars, db, inserted, logged, reader, requestVars, chunkVars>>

\* add_message_id: CREATE TABLE IF NOT EXISTS, committed on its own.
UpdCreate ==
    /\ updPc = "create"
    /\ db' = [db EXCEPT ![updArg.chat] = CreateTable(@)]
    /\ updPc' = "insert"
    /\ UNCHANGED <<schedVars, inserted, got, mutex, updArg, logged, reader,
                   requestVars, chunkVars>>

\* add_message_id: INSERT, committed on its own.
UpdInsert ==
    /\ updPc = "insert"
    /\ db' = [db EXCEPT ![updArg.chat] = InsertRow(@, updArg.message_id)]
    /\ inserted' = [inserted EXCEPT ![updArg.chat] = Append(@, updArg.message_id)]
    /\ updPc' = "trim"
    /\ UNCHANGED <<schedVars, got, mutex, updArg, logged, reader, requestVars,
                   chunkVars>>

\* Mutant of UpdTrim: the guard was dropped before the DELETE (the mutex is
\* locked once per statement).
UpdTrimUnlocked ==
    \/ /\ updPc = "trim"
       /\ mutex = "update"
       /\ mutex' = "free"
       /\ UNCHANGED <<schedVars, db, inserted, got, updPc, updArg, logged, reader,
                      requestVars, chunkVars>>
    \/ /\ updPc = "trim"
       /\ mutex = "free"
       /\ db' = [db EXCEPT ![updArg.chat] = DeleteOld(@, MESSAGE_TO_STORE)]
       /\ updPc' = "next_update"
       /\ updArg' = NoArg
       /\ UNCHANGED <<schedVars, inserted, got, mutex, logged, reader, requestVars,
                      chunkVars>>

\* add_message_id: DELETE of all but the MESSAGE_TO_STORE newest rows, Ok(()),
\* and the guard is dropped.
UpdTrim ==
    /\ updPc = "trim"
    /\ db' = [db EXCEPT ![updArg.chat] = DeleteOld(@, MESSAGE_TO_STORE)]
    /\ updPc' = "next_update"
    /\ updArg' = NoArg
    /\ mutex' = "free"
    /\ UNCHANGED <<schedVars, inserted, got, logged, reader, requestVars, chunkVars>>

\* load_messages reaches self.db.lock().await: an Ask asks for more ids than
\* the ledger keeps, a Summarize for at most MESSAGE_TO_STORE. The call
\* remembers where the update path was.
GetCall ==
    /\ reader = NoReader
    /\ \E c \in Chats, n \in {1, MESSAGE_TO_STORE + 1} :
          reader' = [chat |-> c, count |-> n, at |-> updPc, during |-> updArg]
    /\ got' = NoGet
    /\ UNCHANGED <<schedVars, db, inserted, mutex, updPc, updArg, logged,
                   requestVars, chunkVars>>

\* The reader gets the guard, runs get_messages_id and drops the guard.
GetLocked ==
    /\ reader # NoReader
    /\ mutex = "free"
    /\ got' = [chat |-> reader.chat, count |-> reader.count,
               at |-> reader.at, during |-> reader.during,
               res |-> GetMessagesId(db, reader.chat, reader.count)]
    /\ reader' = NoReader
    /\ UNCHANGED <<schedVars, db, inserted, mutex, updPc, updArg, logged,
                   requestVars, chunkVars>>

NextLedgerSteps ==
    \/ UpdLock
    \/ UpdCreate
    \/ UpdInsert
    \/ UpdTrim
    \/ GetCall
    \/ GetLocked

SpecLedgerSteps == Init /\ [][NextLedgerSteps]_vars


\* The statement add_message_id is at fails: `?` returns the error, the guard
\* is dropped, process_group_message returns it and process_updates logs it
\* and waits for the next update. The statements before it stay committed.
UpdFail ==
    /\ updPc \in {"create", "insert", "trim"}
    /\ logged < MaxLogged
    /\ logged' = logged + 1
    /\ updPc' = "next_update"
    /\ updArg' = NoArg
    /\ mutex' = "free"
    /\ UNCHANGED <<schedVars, ledgerVars, reader, requestVars, chunkVars>>

NextLedgerFaults ==
    \/ UpdLock
    \/ UpdCreate
    \/ UpdInsert
    \/ UpdTrim
    \/ UpdFail

SpecLedgerFaults == Init /\ [][NextLedgerFaults]_vars


\* ------------------------------------------------------- request operations

\* The users a reply goes to.
Recipients == {7, 8}

\* The requests the update loop builds: a Summarize with its count clamped to
\* MESSAGE_TO_STORE and an optional username, an Ask with its fixed count and
\* no username.
Requests ==
    {Request("Summarize", c, u, n, f) :
        c \in Chats, u \in Recipients, n \in 0..MESSAGE_TO_STORE, f \in BOOLEAN}
    \cup {Request("Ask", c, u, n, FALSE) :
        c \in Chats, u \in Recipients, n \in {1, MESSAGE_TO_STORE + 1}}

\* process_command on a Summarize or an Ask: prepare_summary_prompt or
\* ask_on_summary against the ledger as it is now.
Execute ==
    /\ run = NoRun
    /\ \E request \in Requests, gw \in Gateways :
          run' = [request |-> request,
                  delivering |-> gw.fail = 0 /\ ~gw.send_fails,
                  entries |-> Cardinality(db[request.chat].rows),
                  load |-> LoadMessages(db, request, gw),
                  res |-> PrepareSummaryPromptOn(db, request, gw)]
    /\ UNCHANGED <<schedVars, ledgerVars, stepVars, chunkVars, upd>>

\* The drain loop takes the result; the model forgets the call.
Return ==
    /\ run # NoRun
    /\ run' = NoRun
    /\ UNCHANGED <<schedVars, ledgerVars, stepVars, chunkVars, upd>>

\* The update path records messages between the calls of process_command:
\* load_messages reads the ledger once, under the mutex.
NextRequest ==
    \/ run = NoRun /\ Add
    \/ Execute
    \/ Return

SpecRequest == Init /\ [][NextRequest]_vars


\* -------------------------------------------------------- update operations

\* One iteration of the process_updates loop: the update next_update() gave
\* is handled to the end, add_message_id included.
ProcessUpdate ==
    /\ upd = NoUpdate
    /\ \E u \in Updates, dv \in Deliveries :
         LET h == HandleUpdate(u, dv)
         IN /\ h.added # <<>> => TotalAdds < MaxRecorded
            /\ upd' = [update |-> u, deliveries |-> dv, handled |-> h,
                       before |-> inserted[u.chat]]
            /\ IF h.added # <<>>
               THEN /\ db' = AddMessageId(db, h.added[1].chat, h.added[1].message_id)
                    /\ inserted' = [inserted EXCEPT
                                      ![u.chat] = Append(@, h.added[1].message_id)]
               ELSE UNCHANGED <<db, inserted>>
    /\ UNCHANGED <<schedVars, got, stepVars, chunkVars, run>>

\* The loop goes back to next_update().
NextUpdate ==
    /\ upd # NoUpdate
    /\ upd' = NoUpdate
    /\ UNCHANGED <<schedVars, ledgerVars, stepVars, chunkVars, run>>

NextUpdates == ProcessUpdate \/ NextUpdate

SpecUpdates == Init /\ [][NextUpdates]_vars


\* ------------------------------------------------------- chunker operations

\* Byte lengths of usernames ("" for a sender without one) and of texts.
UserLens == {0, 2}

TextLens == {1, 8, 20}

\* The batches handed to the chunker: up to MaxBatch messages, the k-th of
\* the iterator named k.
Batches ==
    UNION {{[k \in 1..n |-> ChunkMessage(k, f[k][1], f[k][2])] :
                f \in [1..n -> UserLens \X TextLens]} : n \in 0..MaxBatch}

\* Budgets around consts::SYMBOL_PER_OPENAI_MESSAGE.
Budgets == (SYMBOL_PER_OPENAI_MESSAGE - 2)..(SYMBOL_PER_OPENAI_MESSAGE + 2)

InitChunker ==
    /\ InitBase
    /\ batch \in Batches
    /\ budget \in Budgets
    /\ called = "none"
    /\ produced = NoPrompts

\* prepare_text_summary hands its iterator to prepare_summarize_prompts as it
\* is: the batch is in chronological order.
CallPrepareSummarizePrompts ==
    /\ called = "none"
    /\ called' = "prepare_summarize_prompts"
    /\ produced' = PrepareSummarizePrompts(batch, SystemMessageLen, budget)
    /\ UNCHANGED <<schedVars, ledgerVars, stepVars, requestVars, batch, budget>>

\* prepare_summary_prompt hands the loaded messages, most recent first, to
\* prepare_summarize_prompts_from_messages.
CallPrepareSummarizePromptsFromMessages ==
    /\ called = "none"
    /\ called' = "prepare_summarize_prompts_from_messages"
    /\ produced' = PrepareSummarizePromptsFromMessages(batch, SystemMessageLen, budget)
    /\ UNCHANGED <<schedVars, ledgerVars, stepVars, requestVars, batch, budget>>

NextChunker ==
    \/ CallPrepareSummarizePrompts
    \/ CallPrepareSummarizePromptsFromMessages

SpecChunker == InitChunker /\ [][NextChunker]_vars


\* ------------------------------------------------------------ properties

IsPrefix(s, t) == Len(s) <= Len(t) /\ SubSeq(t, 1, Len(s)) = s

\* C1: at most one Command is in execution at any time: process_command is
\* never started on a Command before the previous call has returned.
C1_OneCommandAtATime == Len(executing) <= 1

\* C1 witness: a command is executing while another one waits behind it.
C1_Witness == drainPc = "exec" /\ Len(executing) = 1 /\ Len(queue) >= 2

\* C2: FIFO: the submitted Commands are executed in the order the channel
\* accepted them.
C2_Fifo == IsPrefix(execTop, accepted)

\* C2 witness: three submitted commands were executed, the last one after a
\* follow-up of an earlier one.
C2_Witness == Len(execTop) >= 3 /\ lastRemoved.id # <<>> /\ ~IsTop(lastRemoved.id)

\* The drain loop takes its step on the returned result.
DrainStep == drainPc = "ret" /\ drainPc' # "ret"

NoDuplicates(s) == \A i, j \in 1..Len(s) : s[i] = s[j] => i = j

C4_HeadInvariant ==
    /\ [](\A i \in 1..Len(queue) :
            queue[i].id \in Range(started)
                => (i = 1 /\ cur = queue[1] /\ drainPc \in {"exec", "ret"}))
    /\ [][\A i \in 1..Len(queue) :
            queue[i].id \notin Range(Ids(queue'))
                => (i = 1 /\ drainPc = "ret" /\ cur = queue[1] /\ result # NoResult
                    /\ executing = <<>>)]_vars

\* C4 witness: one command was removed on its result, the next one is being
\* executed at the head and another waits unattempted.
C4_Witness ==
    /\ lastRemoved.id # <<>>
    /\ drainPc = "exec"
    /\ Len(queue) >= 2
    /\ queue[2].id \notin Range(started)

\* C5: on success the follow-ups are appended to the tail in the order
\* returned and the head is removed; a follow-up is executed only after every
\* command that was queued when it was appended.
C5_FollowUpsAtTail ==
    /\ [][(DrainStep /\ result.ok)
           => queue' = Tail(queue) \o NewCommands(cur, result.new)]_vars
    /\ [](\A b \in behind : b.f \notin Range(started))

\* C5 witness: a command pushed while the parent was executing is being
\* executed, and the parent's second follow-up waits behind it.
C5_Witness ==
    /\ drainPc = "exec"
    /\ \E b \in behind : b.late /\ b.c = cur.id /\ b.f[Len(b.f)] = 2

\* C6: when process_command fails the head is removed, nothing is appended,
\* the rest of the queue is unchanged and the loop is back at its top.
C6_FailureRemovesHead ==
    [][(DrainStep /\ ~result.ok)
        => (queue # <<>> /\ queue' = Tail(queue) /\ drainPc' = "peek")]_vars

\* C6 witness: a command failed and was removed, and the next command is
\* executing.
C6_Witness ==
    /\ lastRemoved.id # <<>>
    /\ ~lastRemoved.ok
    /\ drainPc = "exec"
    /\ Len(queue) >= 2

\* C7: every command the channel accepted is eventually executed and removed,
\* and from some point on the channel and the queue stay empty.
C7_EveryCommandExecuted ==
    /\ [](\A id \in Range(accepted) :
            \/ id \in Range(Ids(chan)) \cup Range(Ids(queue))
            \/ id \in Range(execTop) /\ id \in Range(removedTop))
    /\ <>[](chan = <<>> /\ queue = <<>>)

\* C7 witness: the command being executed was pushed during the idle sleep.
C7_Witness ==
    /\ drainPc = "exec"
    /\ [id |-> cur.id, during |-> <<0>>] \in arrival

\* C8: the channel never holds more than its capacity; the producer keeps the
\* command it could not send yet; every accepted command is pushed exactly
\* once, in the order accepted, at the tail of the queue.
C8_IngestionLosesNothing ==
    /\ Len(chan) <= ChannelCapacity
    /\ accepted \o (IF pending = NoCommand THEN <<>> ELSE <<pending.id>>)
          = [i \in 1..offered |-> <<i>>]
    /\ ingested \o Ids(chan) = accepted
    /\ removedTop \o SelectSeq(Ids(queue), IsTop) = ingested

\* C8 witness: the channel is full and the producer waits with a command,
\* while earlier commands have been pushed.
C8_Witness ==
    /\ Len(chan) = ChannelCapacity
    /\ pending # NoCommand
    /\ ingested # <<>>
    /\ queue # <<>>

\* The last n elements of s (all of s when it is shorter).
LastN(s, n) == SubSeq(s, Len(s) - Min(n, Len(s)) + 1, Len(s))

\* The message ids of a table in insertion order (ascending row id).
Stored(t) ==
    LET asc == Reverse(OrderByIdDesc(t.rows))
    IN [i \in 1..Len(asc) |-> asc[i].message_id]

\* C9: after k >= 1 adds to a chat, get(chat, c) with c <= N succeeds and
\* returns the first min(c, k, N) of the last min(k, N) ids inserted,
\* most recent first.
C9_LedgerCapacity ==
    (got.chat \in Chats /\ got.count <= MESSAGE_TO_STORE /\ inserted[got.chat] # <<>>)
        => /\ got.res.ok
           /\ got.res.ids
                = SubSeq(Reverse(LastN(inserted[got.chat], MESSAGE_TO_STORE)), 1,
                         Min(got.count, Min(Len(inserted[got.chat]), MESSAGE_TO_STORE)))

\* C9 witness: get(chat, N) after more than N adds, returning N ids of which
\* the first two differ.
C9_Witness ==
    /\ got.chat \in Chats
    /\ got.count = MESSAGE_TO_STORE
    /\ Len(inserted[got.chat]) > MESSAGE_TO_STORE
    /\ Len(got.res.ids) = MESSAGE_TO_STORE
    /\ Len(got.res.ids) >= 2
    /\ got.res.ids[1] # got.res.ids[2]

C11_GetOnUnseenChatIsEmptyOk ==
    (got.chat \in Chats /\ inserted[got.chat] = <<>>)
        => (got.res.ok /\ got.res.ids = <<>>)

\* C12: a Summarize or Ask executed for a chat with zero ledger entries, the
\* gateway delivering, sends exactly one "No messages found" to the recipient
\* and yields no follow-up.
C12_EmptyLedgerNotifiesOnce ==
    (run.request.kind \in {"Summarize", "Ask"} /\ run.entries = 0 /\ run.delivering)
        => /\ run.res.ok
           /\ run.res.sent = <<[to |-> run.request.recipient, text |-> "No messages found"]>>
           /\ run.res.new_commands = <<>>

C14_FailedAddKeepsLoopAndBound ==
    /\ updPc \in {"next_update", "create", "insert", "trim"}
    /\ updPc = "next_update"
          => /\ mutex = "free"
             /\ \A c \in Chats : Cardinality(db[c].rows) <= MESSAGE_TO_STORE

\* After a logged error the update loop is at next_update again, the mutex
\* free: no failure of add_message_id ends the loop.
UpdateLoopSurvives ==
    [][logged' > logged => (updPc' = "next_update" /\ mutex' = "free")]_vars

\* The row bound is restored by the next add on the chat that succeeds.
BoundRestoredByNextAdd ==
    [][(updPc = "trim" /\ updPc' = "next_update" /\ logged' = logged)
          => Cardinality(db'[updArg.chat].rows) <= MESSAGE_TO_STORE]_vars

\* The bytes of a payload as sent: system message and user message, the
\* closing marker included.
PayloadSize(p) == p.system_len + p.user_len

\* C15: every payload the chunker produces has size at most B, except a
\* payload of a single line that is oversized on its own.
C15_ChunkBudget ==
    called # "none"
        => \A k \in 1..Len(produced) :
              \/ PayloadSize(produced[k]) <= budget
              \/ /\ Len(produced[k].lines) = 1
                 /\ produced[k].system_len + produced[k].lines[1].len > budget

\* What the test of the loop bounds: system message and message lines without
\* the closing marker stay within B, except in a payload of a single line.
BudgetWithoutClosingMarker ==
    called # "none"
        => \A k \in 1..Len(produced) :
              \/ produced[k].system_len + MsgLen(produced[k].lines) <= budget
              \/ Len(produced[k].lines) = 1

\* The message lines of all payloads, in payload order.
AllLines(ps) == Extend([k \in 1..Len(ps) |-> ps[k].lines])

\* The batch in chronological order: prepare_summarize_prompts gets it oldest
\* first, prepare_summarize_prompts_from_messages most recent first.
Chronological ==
    IF called = "prepare_summarize_prompts_from_messages" THEN Reverse(batch) ELSE batch

\* C16: the lines of all payloads, in payload order, are the messages of the
\* batch, each exactly once and whole, oldest first; the batch handed over
\* most recent first is reversed before it is chunked.
C16_ChronologyWithoutLoss ==
    called # "none"
        => /\ Len(AllLines(produced)) = Len(batch)
           /\ \A k \in 1..Len(batch) :
                 /\ AllLines(produced)[k].id = Chronological[k].id
                 /\ AllLines(produced)[k].len
                       = Digits(AllLines(produced)[k].index) + 10
                            + Chronological[k].user + Chronological[k].text

\* C16 witness: a batch of three messages handed over most recent first is
\* split, the oldest message (the last of the batch) opening the first
\* payload.
C16_Witness ==
    /\ called = "prepare_summarize_prompts_from_messages"
    /\ Len(batch) = 3
    /\ Len(produced) >= 2
    /\ produced[1].lines # <<>>
    /\ produced[1].lines[1].id = batch[3].id

\* C17 as stated: in every payload the lines are numbered 1, 2, 3, ... from
\* the payload's first line.
C17_NumberingRestartsPerPayload ==
    called # "none"
        => \A k \in 1..Len(produced) :
              \A j \in 1..Len(produced[k].lines) : produced[k].lines[j].index = j

\* C17, corrected: the index is a counter over the whole batch: the k-th
\* line of all payloads together carries k, so a payload after the first
\* starts with the index after the last line of the payload before it.
C17_NumberingIsGlobal ==
    called # "none"
        => \A k \in 1..Len(AllLines(produced)) : AllLines(produced)[k].index = k

\* C17 witness: the first line of a second payload carries an index larger
\* than 1.
C17_Witness ==
    /\ called # "none"
    /\ Len(produced) >= 2
    /\ produced[1].lines # <<>>
    /\ produced[2].lines # <<>>
    /\ produced[2].lines[1].index = Len(produced[1].lines) + 1

\* C18: the chunker returns no payload for an empty batch and at least one
\* for every other batch.
C18_EmptyBatchNoPayload ==
    called # "none" => (batch = <<>> <=> produced = <<>>)

\* C18 witness: the chunker was called on the empty batch and returned no
\* payload.
C18_Witness ==
    /\ called # "none"
    /\ batch = <<>>
    /\ produced = <<>>

\* C19: when the provider call of a SendPrompt fails, that one call is the
\* only provider call of the command, the failure notice is handed to
\* send_message and no follow-up is returned; on the drain loop's next step
\* the command is removed, nothing is appended, and no queued command is
\* ever started twice.
C19_SendPromptFailureTerminates ==
    /\ [](/\ drainPc = "ret"
          /\ cur.kind = "SendPrompt"
          /\ "chat_err" \in Range(result.calls)
          => /\ result.calls = <<"chat_err">>
             /\ result.sent = <<FailureNotice>>
             /\ result.new = 0
             /\ result.ok \/ result.err = "send")
    /\ [][(DrainStep /\ cur.kind = "SendPrompt" /\ "chat_err" \in Range(result.calls))
           => /\ queue' = Tail(queue)
              /\ drainPc' = "peek"
              /\ cur.id \notin Range(Ids(queue'))
              /\ cur.id \notin Range(started')]_vars
    /\ [](NoDuplicates(started) /\ NoDuplicates(Ids(queue)))

\* C19 witness: a SendPrompt whose provider call failed has returned Ok after
\* the notice, with another command queued behind it.
C19_Witness ==
    /\ drainPc = "ret"
    /\ cur.kind = "SendPrompt"
    /\ result.calls = <<"chat_err">>
    /\ result.ok
    /\ Len(queue) >= 2

\* What load_messages fetched is what the ledger holds for the chat, most
\* recent first and cut at message_count, and the messages it returns are
\* among them, in that order.
LoadedMostRecentFirst ==
    (run.request.kind \in {"Summarize", "Ask"} /\ run.load.ok)
        => /\ Extend(run.load.slices)
                = Limit(Reverse(Stored(db[run.request.chat])), run.request.message_count)
           /\ \E keep \in SUBSET MsgIds :
                 run.load.messages
                    = SelectSeq(Extend(run.load.slices), LAMBDA id : id \in keep)


\* The prompts of a sequence of SendPrompt commands, in order.
PromptsOf(cmds) == [k \in 1..Len(cmds) |-> cmds[k].prompt]

\* C20: a Summarize whose loaded message set is not empty sends nothing and
\* calls no provider; it returns one SendPrompt per payload of the chunker,
\* in payload order (the payloads of the loaded messages oldest first), each
\* for the recipient of the Summarize.
C20_FanOut ==
    (run.request.kind = "Summarize" /\ run.load.ok /\ run.load.messages # <<>>)
        => /\ run.res.ok
           /\ run.res.sent = <<>>
           /\ run.res.calls = <<>>
           /\ run.res.new_commands # <<>>
           /\ \A k \in 1..Len(run.res.new_commands) :
                 /\ run.res.new_commands[k].kind = "SendPrompt"
                 /\ run.res.new_commands[k].recipient = run.request.recipient
           /\ PromptsOf(run.res.new_commands)
                = PrepareSummarizePrompts(
                      Reverse([i \in 1..Len(run.load.messages) |-> Messages[run.load.messages[i]]]),
                      SystemMessageLen, SYMBOL_PER_OPENAI_MESSAGE)
           /\ [k \in 1..Len(run.load.messages) |->
                   AllLines(PromptsOf(run.res.new_commands))[k].id]
                = Reverse(run.load.messages)

\* C20 witness: a Summarize of two loaded messages returned two SendPrompt
\* commands, the first carrying the older message.
C20_Witness ==
    /\ run.request.kind = "Summarize"
    /\ Len(run.load.messages) = 2
    /\ Len(run.res.new_commands) = 2
    /\ run.res.new_commands[1].prompt.lines[1].id = run.load.messages[2]
    /\ run.res.new_commands[2].prompt.lines[1].id = run.load.messages[1]
    /\ run.load.messages[1] # run.load.messages[2]

\* The notices of process_media for a failed download and a failed
\* video-to-audio conversion.
MediaFailureNotices == {"Failed to download media", "Failed to convert video to audio"}

\* C21: a SummarizeMessage that told the recipient that the download or the
\* conversion of the attachment failed returns no follow-up, whatever the
\* text of the message.
C21_MediaFailureStops ==
    (/\ drainPc = "ret"
     /\ cur.kind = "SummarizeMessage"
     /\ Range(result.sent) \cap MediaFailureNotices # {})
        => result.new = 0

\* C22: an execution that handed a message for the recipient to send_message
\* returns no follow-up, and only a SendPrompt calls the chat completion,
\* returning no follow-up.
C22_SideEffectOrFollowUps ==
    drainPc = "ret"
        => /\ result.sent # <<>> => result.new = 0
           /\ Range(result.calls) \cap {"chat", "chat_err"} # {}
                 => (cur.kind = "SendPrompt" /\ result.new = 0)


\* A /summarize or /ask trigger addressed to this bot, in a group.
Triggers == {<<"/summarize">>, <<"/summarize", "@", "me">>, <<"/summarize", "@">>, <<"/ask">>}

IsTrigger(u) == u.kind = "group" /\ ~u.outgoing /\ u.token \in Triggers

FallbackNotices == {CannotMessageNotice, UnknownSenderNotice}

\* C23: when a /summarize or /ask trigger arrives and the sender is unknown or
\* the direct message to the sender fails, the last message handed to
\* send_message is a fallback notice to the originating chat and no command is
\* submitted for the trigger; a command is submitted only after the direct
\* message to a known sender went out.
C23_DeliveryFallback ==
    (upd # NoUpdate /\ IsTrigger(upd.update))
        => LET u == upd.update
               h == upd.handled
               undeliverable == u.sender = "none" \/ upd.deliveries.dm_fails
           IN /\ undeliverable
                    => /\ h.submitted = <<>>
                       /\ h.added = <<>>
                       /\ h.sent # <<>>
                       /\ h.sent[Len(h.sent)].to = "chat"
                       /\ h.sent[Len(h.sent)].text \in FallbackNotices
              /\ h.submitted # <<>>
                    => /\ ~undeliverable
                       /\ h.sent = <<[to |-> "sender", text |-> WorkingNotice]>>

C23_Witness ==
    /\ upd # NoUpdate
    /\ IsTrigger(upd.update)
    /\ upd.update.sender = "user"
    /\ upd.deliveries.dm_fails
    /\ upd.handled.submitted = <<>>
    /\ upd.handled.sent = <<[to |-> "sender", text |-> WorkingNotice],
                            [to |-> "chat", text |-> CannotMessageNotice]>>


\* An incoming group message that is not from a bot and whose first token, if
\* it has one, does not start with '/'.
IsOrdinary(u) ==
    /\ u.kind = "group"
    /\ ~u.outgoing
    /\ u.sender # "bot"
    /\ ~(u.token # <<>> /\ StartsWithSlash(Head(u.token)))

\* C29: the ledger records exactly the ordinary group messages: handling an
\* update calls add_message_id, once and for the message's chat and id, exactly
\* when the update is an incoming group message that is not from a bot and
\* whose first token is not a slash command, and the chat's ledger history
\* grows by that id and by nothing else.
C29_ExactlyOrdinaryRecorded ==
    upd # NoUpdate
        => LET u == upd.update
               recorded == IF IsOrdinary(u) THEN <<u.id>> ELSE <<>>
           IN /\ upd.handled.added
                    = [i \in 1..Len(recorded) |-> [chat |-> u.chat, message_id |-> recorded[i]]]
              /\ inserted[u.chat] = upd.before \o recorded


C25_GreedyPacking ==
    called # "none"
        => /\ \A k \in 1..(Len(produced) - 1) :
                 /\ produced[k + 1].lines # <<>>
                 /\ produced[k].system_len + MsgLen(produced[k].lines)
                       + produced[k + 1].lines[1].len > budget
           /\ \A k \in 1..Len(produced) :
                 \A j \in 1..Len(produced[k].lines) :
                    (j > 1 \/ k = 1)
                       => produced[k].system_len
                             + MsgLen(SubSeq(produced[k].lines, 1, j)) <= budget

\* Three lines, the first two in one payload and the third in the next.
C25_Witness ==
    /\ called = "prepare_summarize_prompts"
    /\ Len(batch) = 3
    /\ Len(produced) = 2
    /\ Len(produced[1].lines) = 2
    /\ Len(produced[2].lines) = 1
    /\ produced[1].system_len + MsgLen(produced[1].lines) <= budget


\* C26: every payload the chunker produces contains at least one message
\* line, also when the first line of the batch alone exceeds the budget.
C26_NoHeaderOnlyPayload ==
    called # "none" => \A k \in 1..Len(produced) : produced[k].lines # <<>>


\* The id f is the id of a follow-up of the command with id c.
IsFollowUpOf(f, c) == Len(f) = Len(c) + 1 /\ SubSeq(f, 1, Len(c)) = c

\* C27: whenever the drain loop is about to remove index 0, the queue is not
\* empty and its first element is the command whose execution just returned,
\* whatever ingestion pushed meanwhile; the removal takes that command out and
\* leaves every other command in place, with the follow-ups behind them; and
\* in no state does the queue hold a command together with a follow-up of it.
C27_RemoveHeadIsTheExecuted ==
    /\ [](drainPc = "ret"
            => /\ queue # <<>>
               /\ queue[1] = cur
               /\ cur.id \in Range(started)
               /\ executing = <<>>)
    /\ [][DrainStep
            => /\ Len(queue') = Len(queue) - 1 + (IF result.ok THEN result.new ELSE 0)
               /\ SubSeq(queue', 1, Len(queue) - 1) = Tail(queue)
               /\ cur.id \notin Range(Ids(queue'))
               /\ \A i \in 1..Len(queue') : queue'[i].id \notin Range(started')]_vars
    /\ [](\A i, j \in 1..Len(queue) : ~IsFollowUpOf(queue[j].id, queue[i].id))

\* C27 witness: a command's follow-ups are in the queue behind a command that
\* was pushed while the parent was executing, and the parent is gone.
C27_Witness ==
    /\ lastRemoved.id # <<>>
    /\ lastRemoved.ok
    /\ \E b \in behind :
          /\ b.late
          /\ IsFollowUpOf(b.f, lastRemoved.id)
          /\ b.f \in Range(Ids(queue))
          /\ b.c \in Range(Ids(queue))
    /\ lastRemoved.id \notin Range(Ids(queue))


\* C28: every execution of a SendPrompt makes exactly one provider call and
\* hands exactly one message for the recipient to send_message: the answer
\* when the call returned a completion, the failure notice when it returned
\* an error.
C28_OneCallOneMessage ==
    (drainPc = "ret" /\ cur.kind = "SendPrompt")
        => /\ Len(result.calls) = 1
           /\ Len(result.sent) = 1
           /\ \/ result.calls[1] = "chat" /\ result.sent[1] = "answer"
              \/ result.calls[1] = "chat_err" /\ result.sent[1] = FailureNotice

\* A SendPrompt answered, and one that ended with the notice, are both seen;
\* here the one answered, with its follow-up sibling still queued.
C28_Witness ==
    /\ drainPc = "ret"
    /\ cur.kind = "SendPrompt"
    /\ result.ok
    /\ result.calls = <<"chat">>
    /\ result.sent = <<"answer">>
    /\ Len(queue) >= 2

\* C30: whenever send_prompt returned Ok the completion has a first choice
\* that carries a message, so the SendPrompt case never panics on
\* choices[0].message; every response without a choice or without a message,
\* like every failed request, ends with the failure notice.
C30_OkCompletionHasMessage ==
    (drainPc = "ret" /\ cur.kind = "SendPrompt")
        => LET p == result.response
               usable == p.request_ok /\ p.choices >= 1 /\ p.message
           IN /\ result.err # "panic"
              /\ result.calls = <<"chat">> => usable
              /\ ~usable => /\ result.calls = <<"chat_err">>
                            /\ result.sent = <<FailureNotice>>

\* A completion without any choice took the failure-notice path.
C30_Witness ==
    /\ drainPc = "ret"
    /\ cur.kind = "SendPrompt"
    /\ result.response.request_ok
    /\ result.response.choices = 0
    /\ result.ok
    /\ result.sent = <<FailureNotice>>

====
